---- MODULE Spec2Model ----
(***************************************************************************)
(* Battery Cell Testing Dashboard (src/battery_cell_app.py).               *)
(*                                                                         *)
(* The Streamlit script is modelled as a state machine over its session    *)
(* state: cells_data (an insertion-ordered dict), num_cells, the widget    *)
(* values kept under the keys cell_count_selector and type_<i>, and the    *)
(* position of the script (a rerun pending, idle, or stopped by an         *)
(* exception).                                                             *)
(*                                                                         *)
(* Units: voltages are in 1/100 V (3.6 V = 360), temperatures in 1/10 C    *)
(* (28.0 C = 280), currents in 1/100 A (2.5 A = 250), capacities in mAh.   *)
(* The Python type of a stored capacitance (int from the presets table,    *)
(* float from round(x, 0)) is kept in capacitance_pytype, because          *)
(* st.number_input refuses an int value next to float bounds.              *)
(***************************************************************************)
EXTENDS Integers, Sequences, FiniteSets, TLC

VARIABLES
    cells_data,           \* st.session_state.cells_data: sequence of [key, val], in insertion order
    num_cells,            \* st.session_state.num_cells
    cell_count_selector,  \* widget value under key "cell_count_selector"
    type_sel,             \* widget values under keys type_0.., indexed by slot 1..
    pc,                   \* "start" | "rerun" | "idle" | "error"
    last,                 \* the handler that ran last
    err,                  \* the exception that stopped the last script run, or "none"
    steps,                \* number of user interactions so far
    fn_call,              \* the last direct call of a generator function and its outcome
    fn_prev               \* the direct call before it

vars == <<cells_data, num_cells, cell_count_selector, type_sel, pc, last, err,
          steps, fn_call, fn_prev>>

app_vars == <<cells_data, num_cells, cell_count_selector, type_sel, pc, last, err, steps>>

(***************************************************************************)
(* Bounds of the model.                                                    *)
(***************************************************************************)
\* how many of the options of the "Number of Cells" selector are offered
MaxOptions == 2
\* number of states of the random source a handler may start from
MaxRng == 2
\* number of user interactions in a session
MaxSteps == 3
\* user edits of the input table touch slots 1..MaxEditSlot
MaxEditSlot == 1

(***************************************************************************)
(* Program constants.                                                      *)
(***************************************************************************)
\* options=[4, 8, 12, 16, 20, 24] of the cell count selector
cell_count_options == <<4, 8, 12, 16, 20, 24>>

Min(a, b) == IF a < b THEN a ELSE b

CountOptions == {cell_count_options[j] : j \in 1..Min(MaxOptions, Len(cell_count_options))}

MaxCells == cell_count_options[Min(MaxOptions, Len(cell_count_options))]

\* st.session_state.num_cells = 8
InitNumCells == cell_count_options[2]

CellTypes == {"NMC", "LFP"}

Modes == {"charging", "discharging", "performance"}

RngStates == 0..(MaxRng - 1)

(***************************************************************************)
(* The random source.  A handler starts from a state r of the source; its  *)
(* k-th draw reads position r + k.  uniform returns the low end, the       *)
(* middle or the high end of the interval (already rounded and scaled).    *)
(***************************************************************************)
Level(r) == (r + (r \div 3)) % 3

random_uniform(a, b, r) ==
    CASE Level(r) = 0 -> a
      [] Level(r) = 1 -> (a + b) \div 2
      [] OTHER -> b

random_choice(seq, r) == seq[((r + (r \div 5)) % Len(seq)) + 1]

(***************************************************************************)
(* The dict cells_data: insertion ordered, keys are slot numbers           *)
(* (the k of f"cell_{k}").                                                 *)
(***************************************************************************)
\* (position k is looked at first: it is where key k sits in a dict filled
\* in slot order; any other position is found by the search)
DictHas(d, k) ==
    \/ (k >= 1 /\ k <= Len(d) /\ d[k].key = k)
    \/ \E p \in 1..Len(d) : d[p].key = k

DictPos(d, k) ==
    IF k >= 1 /\ k <= Len(d) /\ d[k].key = k THEN k
    ELSE CHOOSE p \in 1..Len(d) : d[p].key = k

DictGet(d, k) == d[DictPos(d, k)].val

\* d[k] = v: an existing key keeps its position, a new key goes last
DictSet(d, k, v) ==
    IF DictHas(d, k)
    THEN [d EXCEPT ![DictPos(d, k)] = [key |-> k, val |-> v]]
    ELSE Append(d, [key |-> k, val |-> v])

DictDel(d, k) == SelectSeq(d, LAMBDA e : e.key # k)

DictKeys(d) == {d[p].key : p \in 1..Len(d)}

(***************************************************************************)
(* get_default_values                                                      *)
(***************************************************************************)
get_default_values(cell_type, r) ==
    IF cell_type = "LFP"
    THEN [voltage |-> 320, max_voltage |-> 340, min_voltage |-> 280,
          temp |-> random_uniform(250, 400, r),
          current |-> random_uniform(100, 500, r + 1),
          capacitance |-> random_uniform(2500, 3500, r + 2),
          capacitance_pytype |-> "float"]
    ELSE [voltage |-> 360, max_voltage |-> 400, min_voltage |-> 320,
          temp |-> random_uniform(250, 400, r),
          current |-> random_uniform(100, 500, r + 1),
          capacitance |-> random_uniform(2800, 3800, r + 2),
          capacitance_pytype |-> "float"]

(***************************************************************************)
(* get_preset_values                                                       *)
(***************************************************************************)
presets ==
    [charging |->
        [LFP |-> [voltage |-> 330, temp |-> 280, current |-> 250,
                  capacitance |-> 3200, capacitance_pytype |-> "int"],
         NMC |-> [voltage |-> 380, temp |-> 300, current |-> 300,
                  capacitance |-> 3400, capacitance_pytype |-> "int"]],
     discharging |->
        [LFP |-> [voltage |-> 310, temp |-> 350, current |-> 400,
                  capacitance |-> 2800, capacitance_pytype |-> "int"],
         NMC |-> [voltage |-> 340, temp |-> 380, current |-> 450,
                  capacitance |-> 3000, capacitance_pytype |-> "int"]],
     performance |->
        [LFP |-> [voltage |-> 325, temp |-> 450, current |-> 600,
                  capacitance |-> 3000, capacitance_pytype |-> "int"],
         NMC |-> [voltage |-> 370, temp |-> 420, current |-> 700,
                  capacitance |-> 3200, capacitance_pytype |-> "int"]]]

\* variant: an unknown mode or type falls back to the plain defaults
get_preset_values_lenient(mode, cell_type, r) ==
    LET base_values == get_default_values(cell_type, r)
    IN  IF mode \notin DOMAIN presets
        THEN [raised |-> "none", value |-> base_values]
        ELSE IF cell_type \notin DOMAIN presets[mode]
        THEN [raised |-> "none", value |-> base_values]
        ELSE [raised |-> "none", value |-> presets[mode][cell_type] @@ base_values]

\* variant: the merge is written the other way round, {**preset_values, **base_values}
get_preset_values_swapped(mode, cell_type, r) ==
    LET base_values == get_default_values(cell_type, r)
    IN  IF mode \notin DOMAIN presets
        THEN [raised |-> "KeyError"]
        ELSE IF cell_type \notin DOMAIN presets[mode]
        THEN [raised |-> "KeyError"]
        ELSE [raised |-> "none", value |-> base_values @@ presets[mode][cell_type]]

\* variant: only the voltage and the current of the preset are merged
get_preset_values_partial(mode, cell_type, r) ==
    LET base_values == get_default_values(cell_type, r)
    IN  IF mode \notin DOMAIN presets
        THEN [raised |-> "KeyError"]
        ELSE IF cell_type \notin DOMAIN presets[mode]
        THEN [raised |-> "KeyError"]
        ELSE [raised |-> "none",
              value |-> [voltage |-> presets[mode][cell_type].voltage,
                         current |-> presets[mode][cell_type].current] @@ base_values]

\* {**base_values, **preset_values}: the right operand wins
get_preset_values(mode, cell_type, r) ==
    LET base_values == get_default_values(cell_type, r)
    IN  IF mode \notin DOMAIN presets
        THEN [raised |-> "KeyError"]
        ELSE IF cell_type \notin DOMAIN presets[mode]
        THEN [raised |-> "KeyError"]
        ELSE [raised |-> "none", value |-> presets[mode][cell_type] @@ base_values]

(***************************************************************************)
(* apply_preset_to_all_cells: for i in range(num_cells), the selector      *)
(* type of the slot (NMC when the key type_<i> is absent), its preset, and *)
(* the store.  An exception of get_preset_values leaves the loop with the  *)
(* writes made so far.                                                     *)
(***************************************************************************)
RECURSIVE apply_preset_loop(_, _, _, _, _, _)
apply_preset_loop(cd, n, ts, mode, r, i) ==
    IF i >= n THEN [raised |-> "none", cells_data |-> cd]
    ELSE LET cell_type == ts[i + 1]
             preset_values == get_preset_values(mode, cell_type, r + 3 * i)
         IN  IF preset_values.raised # "none"
             THEN [raised |-> preset_values.raised, cells_data |-> cd]
             ELSE apply_preset_loop(
                     DictSet(cd, i + 1, [cell_type |-> cell_type] @@ preset_values.value),
                     n, ts, mode, r, i + 1)

apply_preset_to_all_cells(cd, n, ts, mode, r) == apply_preset_loop(cd, n, ts, mode, r, 0)

(***************************************************************************)
(* update_cell_count                                                       *)
(***************************************************************************)
RECURSIVE grow_loop(_, _, _, _, _)
grow_loop(cd, i, new_count, r, k) ==
    IF i >= new_count THEN cd
    ELSE LET cell_type == "NMC"
             defaults == get_default_values(cell_type, r + 3 * k)
         IN  grow_loop(DictSet(cd, i + 1, [cell_type |-> cell_type] @@ defaults),
                       i + 1, new_count, r, k + 1)

\* variant: the key of the shrink loop is built as f"cell_{i}"
RECURSIVE shrink_loop_key0(_, _, _)
shrink_loop_key0(cd, i, old_count) ==
    IF i >= old_count THEN cd
    ELSE shrink_loop_key0(IF DictHas(cd, i) THEN DictDel(cd, i) ELSE cd,
                          i + 1, old_count)

RECURSIVE shrink_loop(_, _, _)
shrink_loop(cd, i, old_count) ==
    IF i >= old_count THEN cd
    ELSE shrink_loop(IF DictHas(cd, i + 1) THEN DictDel(cd, i + 1) ELSE cd,
                     i + 1, old_count)

\* variant: the grow branch re-creates every slot from the first one
update_cell_count_regrow(cd, n, new_count, r) ==
    LET old_count == n
    IN  [num_cells |-> new_count,
         cells_data |->
            IF new_count > old_count THEN grow_loop(cd, 0, new_count, r, 0)
            ELSE IF new_count < old_count THEN shrink_loop(cd, new_count, old_count)
            ELSE cd]

\* variant: the shrink branch is off by one and keeps slot new_count + 1
update_cell_count_keep(cd, n, new_count, r) ==
    LET old_count == n
    IN  [num_cells |-> new_count,
         cells_data |->
            IF new_count > old_count THEN grow_loop(cd, old_count, new_count, r, 0)
            ELSE IF new_count < old_count THEN shrink_loop(cd, new_count + 1, old_count)
            ELSE cd]

\* variant: the grow branch is entered with >= and starts at the last old slot
update_cell_count_again(cd, n, new_count, r) ==
    LET old_count == n
    IN  [num_cells |-> new_count,
         cells_data |->
            IF new_count >= old_count THEN grow_loop(cd, old_count - 1, new_count, r, 0)
            ELSE shrink_loop(cd, new_count, old_count)]

\* variant: the shrink branch removes the first slots instead of the last
update_cell_count_front(cd, n, new_count, r) ==
    LET old_count == n
    IN  [num_cells |-> new_count,
         cells_data |->
            IF new_count > old_count THEN grow_loop(cd, old_count, new_count, r, 0)
            ELSE IF new_count < old_count THEN shrink_loop(cd, 0, old_count - new_count)
            ELSE cd]

update_cell_count(cd, n, new_count, r) ==
    LET old_count == n
    IN  [num_cells |-> new_count,
         cells_data |->
            IF new_count > old_count THEN grow_loop(cd, old_count, new_count, r, 0)
            ELSE IF new_count < old_count THEN shrink_loop(cd, new_count, old_count)
            ELSE cd]

(***************************************************************************)
(* The "Randomize All Values" handler: per slot five draws, in the order   *)
(* cell type, voltage, temp, current, capacitance.                         *)
(***************************************************************************)
\* variant: the current is drawn from 0.5 .. 80.0 A
randomize_cell_wide(r) ==
    LET cell_type == random_choice(<<"NMC", "LFP">>, r)
        voltage_range == IF cell_type = "LFP" THEN <<280, 340>> ELSE <<320, 400>>
    IN  [cell_type |-> cell_type,
         voltage |-> random_uniform(voltage_range[1], voltage_range[2], r + 1),
         temp |-> random_uniform(200, 500, r + 2),
         current |-> random_uniform(50, 8000, r + 3),
         capacitance |-> IF cell_type = "LFP" THEN random_uniform(2000, 4000, r + 4)
                         ELSE random_uniform(2200, 4200, r + 4),
         capacitance_pytype |-> "float",
         max_voltage |-> IF cell_type = "LFP" THEN 340 ELSE 400,
         min_voltage |-> IF cell_type = "LFP" THEN 280 ELSE 320]

randomize_cell(r) ==
    LET cell_type == random_choice(<<"NMC", "LFP">>, r)
        voltage_range == IF cell_type = "LFP" THEN <<280, 340>> ELSE <<320, 400>>
    IN  [cell_type |-> cell_type,
         voltage |-> random_uniform(voltage_range[1], voltage_range[2], r + 1),
         temp |-> random_uniform(200, 500, r + 2),
         current |-> random_uniform(50, 800, r + 3),
         capacitance |-> IF cell_type = "LFP" THEN random_uniform(2000, 4000, r + 4)
                         ELSE random_uniform(2200, 4200, r + 4),
         capacitance_pytype |-> "float",
         max_voltage |-> IF cell_type = "LFP" THEN 340 ELSE 400,
         min_voltage |-> IF cell_type = "LFP" THEN 280 ELSE 320]

RECURSIVE randomize_loop(_, _, _, _)
randomize_loop(cd, n, r, i) ==
    IF i >= n THEN cd
    ELSE randomize_loop(DictSet(cd, i + 1, randomize_cell(r + 5 * i)), n, r, i + 1)

randomize_all_values(cd, n, r) == randomize_loop(cd, n, r, 0)

(***************************************************************************)
(* st.number_input(min_value, max_value, value, ...): raises when the      *)
(* numeric arguments are not all of one type (the bounds and the step are  *)
(* floats at every call site) or when value lies outside the bounds;       *)
(* otherwise returns what the user typed, or value when the user did not   *)
(* touch the field.  The result is a float.                                *)
(***************************************************************************)
number_input(min_value, max_value, value, value_pytype, edited, user_value) ==
    IF value_pytype # "float" THEN [raised |-> "StreamlitMixedNumericTypesError", value |-> value]
    ELSE IF value < min_value \/ value > max_value
    THEN [raised |-> "StreamlitValueOutOfBoundsError", value |-> value]
    ELSE [raised |-> "none", value |-> IF edited THEN user_value ELSE value]

NoEdit == [slot |-> 0, field |-> "none", value |-> 0]

Edited(edit, slot, field) == edit.slot = slot /\ edit.field = field

\* variant: the band is not recomputed from the selected type
stored_row_nmc_band(cell_type, temp, current, voltage, capacitance, defaults) ==
    [cell_type |-> cell_type,
     temp |-> temp,
     current |-> current,
     voltage |-> voltage,
     capacitance |-> capacitance,
     capacitance_pytype |-> "float",
     max_voltage |-> 400,
     min_voltage |-> 320]

\* the record the input loop stores for one row
stored_row(cell_type, temp, current, voltage, capacitance, defaults) ==
    [cell_type |-> cell_type,
     temp |-> temp,
     current |-> current,
     voltage |-> voltage,
     capacitance |-> capacitance,
     capacitance_pytype |-> "float",
     max_voltage |-> defaults.max_voltage,
     min_voltage |-> defaults.min_voltage]

\* the four number inputs of a row run in the order temp, current, voltage,
\* capacitance; the first exception ends the row before its store
row_outcome(cell_type, defaults, temp, current, voltage, capacitance) ==
    IF temp.raised # "none" THEN [raised |-> temp.raised]
    ELSE IF current.raised # "none" THEN [raised |-> current.raised]
    ELSE IF voltage.raised # "none" THEN [raised |-> voltage.raised]
    ELSE IF capacitance.raised # "none" THEN [raised |-> capacitance.raised]
    ELSE [raised |-> "none",
          row |-> stored_row(cell_type, temp.value, current.value, voltage.value,
                             capacitance.value, defaults)]

\* one row: value = cells_data.get(key, {}).get(field, defaults[field])
input_row(slot, cell_type, defaults, shown, edit) ==
    row_outcome(cell_type, defaults,
        number_input(0, 1000, shown.temp, "float",
                     Edited(edit, slot, "temp"), edit.value),
        number_input(0, 2000, shown.current, "float",
                     Edited(edit, slot, "current"), edit.value),
        number_input(0, 500, shown.voltage, "float",
                     Edited(edit, slot, "voltage"), edit.value),
        number_input(0, 10000, shown.capacitance, shown.capacitance_pytype,
                     Edited(edit, slot, "capacitance"), edit.value))

\* the value of the type selector of a row in this run
selected_type(ts, edit, slot) ==
    IF Edited(edit, slot, "type") THEN edit.value ELSE ts[slot]

shown_record(cd, slot, defaults) ==
    IF DictHas(cd, slot) THEN DictGet(cd, slot) ELSE defaults

(***************************************************************************)
(* The input rows of the "Data Input" tab: for i in range(num_cells) the   *)
(* type selector, the defaults of that type, the four number inputs        *)
(* (value = the stored field, or the default when the slot has no record)  *)
(* and the store.  An exception stops the script inside the row.           *)
(***************************************************************************)
RECURSIVE input_loop(_, _, _, _, _, _)
input_store(cd, n, ts1, edit, r, i, res) ==
    IF res.raised # "none"
    THEN [raised |-> res.raised, cells_data |-> cd, type_sel |-> ts1]
    ELSE input_loop(DictSet(cd, i + 1, res.row), n, ts1, edit, r, i + 1)

input_defaults(cd, n, ts, edit, r, i, cell_type, defaults) ==
    input_store(cd, n, [ts EXCEPT ![i + 1] = cell_type], edit, r, i,
                input_row(i + 1, cell_type, defaults,
                          shown_record(cd, i + 1, defaults), edit))

input_loop(cd, n, ts, edit, r, i) ==
    IF i >= n THEN [raised |-> "none", cells_data |-> cd, type_sel |-> ts]
    ELSE input_defaults(cd, n, ts, edit, r, i, selected_type(ts, edit, i + 1),
                        get_default_values(selected_type(ts, edit, i + 1), r + 3 * i))

\* widget values of selectors that a completed run did not render are dropped
\* (an absent key reads as the first option, "NMC")
drop_stale_widgets(ts, n) == [s \in DOMAIN ts |-> IF s <= n THEN ts[s] ELSE "NMC"]

(***************************************************************************)
(* The Insights tab and export_to_csv.  A label "Cell N" is modelled by    *)
(* the number N it carries.                                                *)
(***************************************************************************)
\* max(xs) and min(xs) of a non-empty list
list_max(xs) == CHOOSE m \in {xs[p] : p \in 1..Len(xs)} : \A q \in 1..Len(xs) : xs[q] <= m

list_min(xs) == CHOOSE m \in {xs[p] : p \in 1..Len(xs)} : \A q \in 1..Len(xs) : xs[q] >= m

\* variant: the last occurrence instead of the first
list_index_last(xs, v) ==
    (CHOOSE p \in 1..Len(xs) : xs[p] = v /\ \A q \in (p + 1)..Len(xs) : xs[q] # v) - 1

\* xs.index(v): 0-based position of the first occurrence
list_index(xs, v) ==
    (CHOOSE p \in 1..Len(xs) : xs[p] = v /\ \A q \in 1..(p - 1) : xs[q] # v) - 1

temps(cd) == [p \in 1..Len(cd) |-> cd[p].val.temp]

capacitances(cd) == [p \in 1..Len(cd) |-> cd[p].val.capacitance]

max_temp_cell(cd) == list_index(temps(cd), list_max(temps(cd))) + 1

min_temp_cell(cd) == list_index(temps(cd), list_min(temps(cd))) + 1

max_capacity_cell(cd) == list_index(capacitances(cd), list_max(capacitances(cd))) + 1

min_capacity_cell(cd) == list_index(capacitances(cd), list_min(capacitances(cd))) + 1

\* chart_data of the Visualizations tab: one entry per item of cells_data,
\* labelled slot.replace('cell_', 'Cell ')
chart_data(cd) ==
    [p \in 1..Len(cd) |->
        [Cell_Slot |-> cd[p].key,
         Cell_Type |-> cd[p].val.cell_type,
         Temperature |-> cd[p].val.temp,
         Voltage |-> cd[p].val.voltage,
         Current |-> cd[p].val.current,
         Capacitance |-> cd[p].val.capacitance]]

\* variant: the upper bound is tested with >=
RECURSIVE out_of_range_loop_inclusive(_, _, _)
out_of_range_loop_inclusive(cd, i, acc) ==
    IF i >= Len(cd) THEN acc
    ELSE LET data == cd[i + 1].val
         IN  out_of_range_loop_inclusive(cd, i + 1,
                IF data.voltage < data.min_voltage \/ data.voltage >= data.max_voltage
                THEN Append(acc, i + 1) ELSE acc)

\* for i, (cell_name, data) in enumerate(cells_data.items()): append f"Cell {i+1}"
RECURSIVE out_of_range_loop(_, _, _)
out_of_range_loop(cd, i, acc) ==
    IF i >= Len(cd) THEN acc
    ELSE LET data == cd[i + 1].val
         IN  out_of_range_loop(cd, i + 1,
                IF data.voltage < data.min_voltage \/ data.voltage > data.max_voltage
                THEN Append(acc, i + 1) ELSE acc)

out_of_range_cells(cd) == out_of_range_loop(cd, 0, <<>>)

\* variant: the status looks up the label f"Cell {i}"
summary_data_label0(cd, out_of_range) ==
    [p \in 1..Len(cd) |->
        [Cell |-> p,
         Type |-> cd[p].val.cell_type,
         Temperature |-> cd[p].val.temp,
         Voltage |-> cd[p].val.voltage,
         Current |-> cd[p].val.current,
         Capacitance |-> cd[p].val.capacitance,
         Status |-> IF \E j \in 1..Len(out_of_range) : out_of_range[j] = p - 1
                    THEN "Out of Range" ELSE "Normal"]]

\* summary_data of the Insights tab: for i, (cell_name, data) in
\* enumerate(cells_data.items()), the label f"Cell {i+1}" and the status by
\* membership of that label in out_of_range_cells
summary_data(cd, out_of_range) ==
    [p \in 1..Len(cd) |->
        [Cell |-> p,
         Type |-> cd[p].val.cell_type,
         Temperature |-> cd[p].val.temp,
         Voltage |-> cd[p].val.voltage,
         Current |-> cd[p].val.current,
         Capacitance |-> cd[p].val.capacitance,
         Status |-> IF \E j \in 1..Len(out_of_range) : out_of_range[j] = p
                    THEN "Out of Range" ELSE "Normal"]]

export_row(i, data) ==
    [Cell_Slot |-> i + 1,
     Cell_Type |-> data.cell_type,
     Temperature_C |-> data.temp,
     Voltage_V |-> data.voltage,
     Current_A |-> data.current,
     Capacitance_mAh |-> data.capacitance,
     Max_Voltage_V |-> data.max_voltage,
     Min_Voltage_V |-> data.min_voltage,
     Voltage_Status |->
        IF data.voltage < data.min_voltage \/ data.voltage > data.max_voltage
        THEN "Out_of_Range" ELSE "Normal"]

\* variant: each row is put in front of the rows collected so far
RECURSIVE export_loop_prepend(_, _, _, _)
export_loop_prepend(cd, n, i, export_data) ==
    IF i >= n THEN export_data
    ELSE export_loop_prepend(cd, n, i + 1,
            IF DictHas(cd, i + 1)
            THEN <<export_row(i, DictGet(cd, i + 1))>> \o export_data
            ELSE export_data)

RECURSIVE export_loop(_, _, _, _)
export_loop(cd, n, i, export_data) ==
    IF i >= n THEN export_data
    ELSE export_loop(cd, n, i + 1,
            IF DictHas(cd, i + 1)
            THEN Append(export_data, export_row(i, DictGet(cd, i + 1)))
            ELSE export_data)

\* None when cells_data is empty, else the rows of the DataFrame
export_to_csv(cd, n) ==
    IF cd = <<>> THEN [none |-> TRUE, rows |-> <<>>]
    ELSE [none |-> FALSE, rows |-> export_loop(cd, n, 0, <<>>)]

(***************************************************************************)
(* The statistics of the Insights tab (lines 804-953) and of the Export    *)
(* Data tab (lines 955-1043).  max() and min() of an empty list raise      *)
(* ValueError and np.mean of an empty list is NaN; both tabs compute only  *)
(* under "if st.session_state.cells_data:" and show st.info otherwise.     *)
(* Means are in the scaled units, truncated to an integer.                 *)
(***************************************************************************)
RECURSIVE seq_sum(_, _)
seq_sum(xs, p) == IF p > Len(xs) THEN 0 ELSE xs[p] + seq_sum(xs, p + 1)

np_mean(xs) ==
    IF Len(xs) = 0 THEN [nan |-> TRUE, value |-> 0]
    ELSE [nan |-> FALSE, value |-> seq_sum(xs, 1) \div Len(xs)]

\* the temperature and capacity cards of the Insights tab
insights_stats(cd) ==
    IF Len(cd) = 0
    THEN [raised |-> "ValueError", over |-> 0, nan |-> FALSE]
    ELSE [raised |-> "none", over |-> Len(cd),
          max_temp_cell |-> max_temp_cell(cd),
          min_temp_cell |-> min_temp_cell(cd),
          avg_temp |-> np_mean(temps(cd)).value,
          avg_capacity |-> np_mean(capacitances(cd)).value,
          max_capacity_cell |-> max_capacity_cell(cd),
          min_capacity_cell |-> min_capacity_cell(cd),
          nan |-> np_mean(temps(cd)).nan \/ np_mean(capacitances(cd)).nan]

\* variant: the tab computes without the guard "if st.session_state.cells_data:"
insights_tab_unguarded(cd) == [shown |-> "insights"] @@ insights_stats(cd)

\* with tab3: the statistics when cells_data is non-empty, else st.info(...)
insights_tab(cd) ==
    IF cd # <<>>
    THEN [shown |-> "insights"] @@ insights_stats(cd)
    ELSE [shown |-> "info", raised |-> "none", over |-> 0, nan |-> FALSE]

\* summary_stats of the Export Data tab: Average, Min and Max of the temperatures
\* and the capacitances (np.min and np.max of an empty list raise ValueError)
summary_stats(cd) ==
    IF Len(cd) = 0
    THEN [raised |-> "ValueError", over |-> 0, nan |-> TRUE]
    ELSE [raised |-> "none", over |-> Len(cd),
          Average |-> <<np_mean(temps(cd)).value, np_mean(capacitances(cd)).value>>,
          Min |-> <<list_min(temps(cd)), list_min(capacitances(cd))>>,
          Max |-> <<list_max(temps(cd)), list_max(capacitances(cd))>>,
          nan |-> np_mean(temps(cd)).nan \/ np_mean(capacitances(cd)).nan]

\* with tab4: the preview and the summary when cells_data is non-empty and
\* export_to_csv() is not None, else st.info(...) or nothing
export_tab(cd, n) ==
    IF cd # <<>>
    THEN IF ~export_to_csv(cd, n).none
         THEN [shown |-> "preview", preview |-> export_to_csv(cd, n).rows]
              @@ summary_stats(cd)
         ELSE [shown |-> "configuration", raised |-> "none", over |-> 0, nan |-> FALSE]
    ELSE [shown |-> "info", raised |-> "none", over |-> 0, nan |-> FALSE]

\* the sidebar button "Export to CSV": a download button, or st.error(...)
\* when export_to_csv() is None
export_button(cd, n) ==
    IF ~export_to_csv(cd, n).none THEN "download" ELSE "error_message"

(***************************************************************************)
(* Inputs of the model.                                                    *)
(***************************************************************************)
\* values a user types into a number input (inside the widget's bounds): an
\* end of the widget's range, and for the voltage the two values 0.01 V above
\* the upper end of the LFP and of the NMC band
FieldEdits(field) ==
    CASE field = "temp" -> {1000}
      [] field = "current" -> {0}
      [] field = "voltage" -> {341, 401}
      [] field = "capacitance" -> {10000}

Fields == {"temp", "current", "voltage", "capacitance"}

EditSlots == 1..MaxEditSlot

\* arguments of direct calls of the generator functions
TypeArgs == CellTypes \cup {"LTO"}

ModeArgs == Modes \cup {"storage"}

NoValue == [none |-> TRUE]

NoCall == [fn |-> "none", mode |-> "none", cell_type |-> "none", rng |-> 0,
           raised |-> "none", value |-> NoValue]

(***************************************************************************)
(* Initial state: the session state after lines 289-292, before the first  *)
(* script run has rendered anything.                                       *)
(***************************************************************************)
Init ==
    /\ cells_data = <<>>
    /\ num_cells = InitNumCells
    /\ cell_count_selector = InitNumCells
    /\ type_sel = [s \in 1..MaxCells |-> "NMC"]
    /\ pc = "start"
    /\ last = "init"
    /\ err = "none"
    /\ steps = 0
    /\ fn_call = NoCall
    /\ fn_prev = NoCall

\* The user acts when a script run has ended, normally or with an exception
\* shown in the page.  A session is not followed past a failed direct call
\* of apply_preset_to_all_cells, which no widget of the page can make.
Interactive == pc \in {"idle", "error"} /\ last # "bad_preset" /\ steps < MaxSteps

\* The input rows read a random default only for a slot that has no record
\* yet; with a record in every slot the outcome of a run is the same from
\* every state of the random source, and one state stands for all.
DrawStates == IF \E s \in 1..num_cells : ~DictHas(cells_data, s) THEN RngStates ELSE {0}

\* the rest of a script run once the sidebar has been passed: the input rows
RunInputRows(edit, handler) ==
    \E r \in DrawStates :
    \E res \in {input_loop(cells_data, num_cells, type_sel, edit, r, 0)} :
        /\ cells_data' = res.cells_data
        /\ type_sel' = IF res.raised = "none"
                       THEN drop_stale_widgets(res.type_sel, num_cells)
                       ELSE res.type_sel
        /\ pc' = IF res.raised = "none" THEN "idle" ELSE "error"
        /\ err' = res.raised
        /\ last' = handler
        /\ UNCHANGED <<num_cells, cell_count_selector, fn_call, fn_prev>>

\* the first script run, and the run started by st.rerun(): the selector
\* equals num_cells and no button reads as clicked
ScriptRun ==
    /\ pc \in {"start", "rerun"}
    /\ cell_count_selector = num_cells
    /\ RunInputRows(NoEdit, "render")
    /\ UNCHANGED steps

\* the user picks another number of cells: lines 554-556
CountChange ==
    /\ Interactive
    /\ \E n \in CountOptions \ {num_cells} : \E r \in RngStates :
          \E u \in {update_cell_count(cells_data, num_cells, n, r)} :
              /\ cell_count_selector' = n
              /\ num_cells' = u.num_cells
              /\ cells_data' = u.cells_data
    /\ pc' = "rerun"
    /\ last' = "count"
    /\ err' = "none"
    /\ steps' = steps + 1
    /\ UNCHANGED <<type_sel, fn_call, fn_prev>>

\* apply_preset_to_all_cells(mode) followed by st.rerun(), or stopped by an exception
PresetHandler(mode, r, handler) ==
    \E res \in {apply_preset_to_all_cells(cells_data, num_cells, type_sel, mode, r)} :
        /\ cells_data' = res.cells_data
        /\ pc' = IF res.raised = "none" THEN "rerun" ELSE "error"
        /\ err' = res.raised
        /\ last' = handler
        /\ steps' = steps + 1
        /\ UNCHANGED <<num_cells, cell_count_selector, type_sel, fn_call, fn_prev>>

\* one of the three preset buttons: lines 569-580
PresetClick ==
    /\ Interactive
    /\ \E mode \in Modes : \E r \in RngStates : PresetHandler(mode, r, "preset")

\* apply_preset_to_all_cells called with a mode the table does not hold
PresetUnknownMode ==
    /\ Interactive
    /\ \E mode \in ModeArgs \ Modes : \E r \in RngStates :
          PresetHandler(mode, r, "bad_preset")

\* the "Randomize All Values" button: lines 588-625
RandomizeClick ==
    /\ Interactive
    /\ \E r \in RngStates : cells_data' = randomize_all_values(cells_data, num_cells, r)
    /\ pc' = "rerun"
    /\ last' = "randomize"
    /\ err' = "none"
    /\ steps' = steps + 1
    /\ UNCHANGED <<num_cells, cell_count_selector, type_sel, fn_call, fn_prev>>

\* the user changes the type selector of a row; the script runs once
EditType ==
    /\ Interactive
    /\ \E slot \in EditSlots : \E t \in CellTypes \ {type_sel[slot]} :
          /\ slot <= num_cells
          /\ RunInputRows([slot |-> slot, field |-> "type", value |-> t], "edit")
    /\ steps' = steps + 1

\* the user types a value into a number input of a row; the script runs once
EditField ==
    /\ Interactive
    /\ \E slot \in EditSlots : \E field \in Fields : \E v \in FieldEdits(field) :
          /\ slot <= num_cells
          /\ RunInputRows([slot |-> slot, field |-> field, value |-> v], "edit")
    /\ steps' = steps + 1

Next ==
    \/ ScriptRun
    \/ CountChange
    \/ PresetClick
    \/ PresetUnknownMode
    \/ RandomizeClick
    \/ EditType
    \/ EditField

Spec == Init /\ [][Next]_vars

(***************************************************************************)
(* Direct calls of the generator functions, for the claims about them.     *)
(***************************************************************************)
CallGetDefaultValues ==
    \E t \in TypeArgs : \E r \in RngStates :
        /\ fn_call' = [fn |-> "get_default_values", mode |-> "none", cell_type |-> t,
                       rng |-> r, raised |-> "none", value |-> get_default_values(t, r)]
        /\ fn_prev' = fn_call
        /\ UNCHANGED app_vars

CallGetPresetValues ==
    \E mode \in ModeArgs : \E t \in TypeArgs : \E r \in RngStates :
        LET res == get_preset_values(mode, t, r)
        IN  /\ fn_call' = [fn |-> "get_preset_values", mode |-> mode, cell_type |-> t,
                           rng |-> r, raised |-> res.raised,
                           value |-> IF res.raised = "none" THEN res.value ELSE NoValue]
            /\ fn_prev' = fn_call
            /\ UNCHANGED app_vars

NextFn == CallGetDefaultValues \/ CallGetPresetValues

SpecFn == Init /\ [][NextFn]_vars

(***************************************************************************)
(* Properties.                                                             *)
(***************************************************************************)
StoredSlots == DictKeys(cells_data)

Rec(k) == DictGet(cells_data, k)

\* a step taken by the cell count handler
CountChangeStep == last' = "count" /\ steps' = steps + 1

\* C1: update_cell_count(n) leaves the record of every retained slot
\* 1..min(m, n) field-for-field as it was, when growing and when shrinking.
C1_RetainedSlotsPreserved ==
    [][CountChangeStep =>
        \A k \in 1..Min(num_cells, num_cells') :
            DictHas(cells_data, k) =>
                /\ DictHas(cells_data', k)
                /\ DictGet(cells_data', k) = DictGet(cells_data, k)]_vars

\* a grow has run and slot 1 still holds the voltage the user typed before
\* the shrink and the grow
C1_Witness ==
    /\ last = "count"
    /\ num_cells = InitNumCells
    /\ DictHas(cells_data, 1)
    /\ Rec(1).voltage = 401
    /\ Len(cells_data) = InitNumCells

\* a record as get_default_values("NMC") makes it, whatever the random draws
FreshNMC(rec) ==
    /\ rec.cell_type = "NMC"
    /\ rec.voltage = 360 /\ rec.max_voltage = 400 /\ rec.min_voltage = 320
    /\ rec.temp \in 250..400
    /\ rec.current \in 100..500
    /\ rec.capacitance \in 2800..3800
    /\ rec.capacitance_pytype = "float"

\* C2: from stored slots 1..m, update_cell_count(n) ends with num_cells = n
\* and stored slots exactly 1..n; every slot m+1..n created by a grow is a
\* fresh NMC default record, every slot above n is removed by a shrink.
C2_CountChangeResult ==
    [][(CountChangeStep /\ StoredSlots = 1..num_cells) =>
        /\ num_cells' = cell_count_selector'
        /\ DictKeys(cells_data') = 1..num_cells'
        /\ Len(cells_data') = num_cells'
        /\ \A k \in (num_cells + 1)..num_cells' : FreshNMC(DictGet(cells_data', k))]_vars

\* a grow after a shrink: the slots a preset had filled before are retained
\* in 1..4 with their preset data, slot 5 is back with plain NMC defaults
C2_Witness ==
    /\ last = "count"
    /\ num_cells = InitNumCells
    /\ steps = 3
    /\ StoredSlots = 1..InitNumCells
    /\ Rec(1).capacitance_pytype = "int"
    /\ FreshNMC(Rec(5))

\* C3: update_cell_count(n) called a second time changes nothing: for every
\* reachable state and every n, the second call returns the state the first
\* call produced, whatever the random source does.
SecondCallChangesNothing(once, n) ==
    \A r2 \in RngStates : update_cell_count(once.cells_data, once.num_cells, n, r2) = once

C3_UpdateIdempotent ==
    \A n \in CountOptions : \A r1 \in RngStates :
        SecondCallChangesNothing(update_cell_count(cells_data, num_cells, n, r1), n)

\* a grow has just run (the branch that draws random defaults)
C3_Witness ==
    /\ last = "count"
    /\ pc = "rerun"
    /\ num_cells = InitNumCells
    /\ Len(cells_data) = InitNumCells
    /\ steps = 2

OutOfRange(rec) == rec.voltage < rec.min_voltage \/ rec.voltage > rec.max_voltage

InList(list, k) == \E j \in 1..Len(list) : list[j] = k

Listed(k) == InList(out_of_range_cells(cells_data), k)

ExportRows == export_to_csv(cells_data, num_cells).rows

HasRow(rows, k) == \E j \in 1..Len(rows) : rows[j].Cell_Slot = k

RowStatus(rows, k) == rows[CHOOSE j \in 1..Len(rows) : rows[j].Cell_Slot = k].Voltage_Status

ExportStatus(k) == RowStatus(ExportRows, k)

\* the statement of C4 for one stored record, the Insights list and the export rows
StrictBoundsAt(k, rec, list, rows) ==
    /\ InList(list, k) <=> (rec.voltage < rec.min_voltage \/ rec.voltage > rec.max_voltage)
    /\ HasRow(rows, k)
    /\ (RowStatus(rows, k) = "Out_of_Range") <=>
          (rec.voltage < rec.min_voltage \/ rec.voltage > rec.max_voltage)
    /\ (rec.voltage = rec.max_voltage \/ rec.voltage = rec.min_voltage)
          => (~InList(list, k) /\ RowStatus(rows, k) = "Normal")
    /\ rec.voltage = rec.max_voltage + 1
          => (InList(list, k) /\ RowStatus(rows, k) = "Out_of_Range")

StrictBoundsIn(cd, list, rows) ==
    \A p \in 1..Len(cd) : StrictBoundsAt(cd[p].key, cd[p].val, list, rows)

\* C4: a cell is reported out of range, in the Insights list and in the
\* export status, exactly when voltage < min_voltage or voltage >
\* max_voltage; at voltage = max_voltage or = min_voltage it is Normal, at
\* max_voltage + 0.01 it is out of range.
C4_StrictBounds ==
    StrictBoundsIn(cells_data, out_of_range_cells(cells_data), ExportRows)

\* one cell sits exactly on its max_voltage and is Normal, another is 0.01 V
\* above its max_voltage and is reported
C4_Witness ==
    \E k1 \in StoredSlots : \E k2 \in StoredSlots :
        /\ Rec(k1).voltage = Rec(k1).max_voltage
        /\ ~Listed(k1)
        /\ ExportStatus(k1) = "Normal"
        /\ Rec(k2).voltage = Rec(k2).max_voltage + 1
        /\ Listed(k2)
        /\ ExportStatus(k2) = "Out_of_Range"

\* the band table of the data model: LFP [2.8, 3.4], NMC [3.2, 4.0]
BandOf(cell_type) == IF cell_type = "LFP" THEN <<280, 340>> ELSE <<320, 400>>

\* C5: every stored record carries the (min_voltage, max_voltage) of its own
\* cell_type, and so min_voltage <= max_voltage.
C5_BandFollowsType ==
    \A k \in StoredSlots :
        /\ Rec(k).cell_type \in CellTypes
        /\ <<Rec(k).min_voltage, Rec(k).max_voltage>> = BandOf(Rec(k).cell_type)
        /\ Rec(k).min_voltage <= Rec(k).max_voltage

\* after a type change by the user the store holds an LFP record next to
\* NMC records
C5_Witness ==
    /\ last = "edit"
    /\ pc = "idle"
    /\ \E k \in StoredSlots : Rec(k).cell_type = "LFP" /\ Rec(k).max_voltage = 340
    /\ \E k \in StoredSlots : Rec(k).cell_type = "NMC" /\ Rec(k).max_voltage = 400

\* C6: get_default_values called with a cell_type that is neither "LFP" nor
\* "NMC" fails with InvalidArgument and returns no defaults record.
C6_InvalidTypeFails ==
    (fn_call.fn = "get_default_values" /\ fn_call.cell_type \notin CellTypes) =>
        (fn_call.raised = "InvalidArgument" /\ fn_call.value = NoValue)

\* C7: apply_preset_to_all_cells called with a mode outside {charging,
\* discharging, performance} fails and leaves cells_data and num_cells as
\* they were, no slot overwritten.
C7_UnknownModeNoWrite ==
    [][(last' = "bad_preset" /\ steps' = steps + 1) =>
        /\ err' # "none"
        /\ pc' = "error"
        /\ cells_data' = cells_data
        /\ num_cells' = num_cells]_vars

\* the call has failed on a populated store
C7_Witness ==
    /\ last = "bad_preset"
    /\ err = "KeyError"
    /\ Len(cells_data) = num_cells
    /\ steps >= 2

\* C8: for every valid (mode, cell_type), get_preset_values returns the
\* table constants of the pair in voltage, temp, current and capacitance and
\* the band of the type in max_voltage/min_voltage.
C8_PresetValues ==
    (fn_call.fn = "get_preset_values" /\ fn_call.mode \in Modes /\ fn_call.cell_type \in CellTypes) =>
        /\ fn_call.raised = "none"
        /\ fn_call.value.voltage = presets[fn_call.mode][fn_call.cell_type].voltage
        /\ fn_call.value.temp = presets[fn_call.mode][fn_call.cell_type].temp
        /\ fn_call.value.current = presets[fn_call.mode][fn_call.cell_type].current
        /\ fn_call.value.capacitance = presets[fn_call.mode][fn_call.cell_type].capacitance
        /\ <<fn_call.value.min_voltage, fn_call.value.max_voltage>> = BandOf(fn_call.cell_type)

\* a call for (performance, LFP) whose random default temperature (40.0)
\* differs from the preset's 45.0
C8_Witness ==
    /\ fn_call.fn = "get_preset_values"
    /\ fn_call.mode = "performance"
    /\ fn_call.cell_type = "LFP"
    /\ fn_call.raised = "none"
    /\ get_default_values("LFP", fn_call.rng).temp # 450
    /\ fn_call.value.temp = 450

\* the stored values of a field, by slot
FieldBySlot(field) == [k \in StoredSlots |-> Rec(k)[field]]

\* the largest and the smallest value of a non-empty map
MaxIn(f) == CHOOSE v \in {f[k] : k \in DOMAIN f} : \A j \in DOMAIN f : f[j] <= v

MinIn(f) == CHOOSE v \in {f[k] : k \in DOMAIN f} : \A j \in DOMAIN f : f[j] >= v

MaxOf(field) == MaxIn(FieldBySlot(field))

\* the smallest slot whose value is v
FirstSlotAt(f, v) == CHOOSE k \in DOMAIN f : f[k] = v /\ \A j \in DOMAIN f : f[j] = v => k <= j

FirstMaxSlot(f) == FirstSlotAt(f, MaxIn(f))

FirstMinSlot(f) == FirstSlotAt(f, MinIn(f))

\* C9: the cell the Insights tab names for the highest and the lowest
\* temperature and capacity is the smallest slot number whose stored record
\* attains that value.
C9_FirstOccurrenceWins ==
    cells_data # <<>> =>
        /\ max_temp_cell(cells_data) = FirstMaxSlot(FieldBySlot("temp"))
        /\ min_temp_cell(cells_data) = FirstMinSlot(FieldBySlot("temp"))
        /\ max_capacity_cell(cells_data) = FirstMaxSlot(FieldBySlot("capacitance"))
        /\ min_capacity_cell(cells_data) = FirstMinSlot(FieldBySlot("capacitance"))

\* the highest temperature is held by two slots, neither of them slot 1,
\* and the lower-numbered one is named
C9_Witness ==
    /\ cells_data # <<>>
    /\ \E k1 \in StoredSlots : \E k2 \in StoredSlots :
          /\ 1 < k1 /\ k1 < k2
          /\ Rec(k1).temp = MaxOf("temp")
          /\ Rec(k2).temp = MaxOf("temp")
          /\ Rec(1).temp < MaxOf("temp")
          /\ max_temp_cell(cells_data) = k1
          /\ \A j \in 1..(k1 - 1) : Rec(j).temp < MaxOf("temp")

\* the slots whose record is out of range, in ascending order
RECURSIVE AscendingOutOfRange(_, _)
AscendingOutOfRange(k, n) ==
    IF k > n THEN <<>>
    ELSE (IF DictHas(cells_data, k) /\ OutOfRange(Rec(k)) THEN <<k>> ELSE <<>>)
         \o AscendingOutOfRange(k + 1, n)

\* C10: the Insights out-of-range list names exactly the slots whose record
\* is out of range, in ascending slot order, and the position-based label
\* of every entry of cells_data equals the slot number of its key.
C10_LabelsAreSlots ==
    /\ \A p \in 1..Len(cells_data) : cells_data[p].key = p
    /\ out_of_range_cells(cells_data) = AscendingOutOfRange(1, MaxCells)

\* a randomize, a shrink and a grow have run: the list names at least two of
\* the retained slots and none of the re-created ones
C10_Witness ==
    /\ last = "count"
    /\ steps = 3
    /\ num_cells = InitNumCells
    /\ Len(cells_data) = InitNumCells
    /\ Len(out_of_range_cells(cells_data)) >= 2
    /\ \A k \in 5..InitNumCells : ~Listed(k)

\* what the two tabs and the sidebar button show for one state of the store
NoEmptyStatistics(cd, insights, export, csv, button) ==
    /\ insights.raised = "none" /\ ~insights.nan
    /\ export.raised = "none" /\ ~export.nan
    /\ (insights.shown = "insights") <=> (cd # <<>>)
    /\ (insights.shown = "insights") => insights.over = Len(cd) /\ insights.over > 0
    /\ (export.shown = "preview") => export.over = Len(cd) /\ export.over > 0
    /\ csv.none <=> (cd = <<>>)
    /\ (cd = <<>>) =>
          /\ insights.shown = "info"
          /\ export.shown = "info"
          /\ button = "error_message"

\* C11: the mean, min, max and index-of-max computations of the Insights and
\* Export Data tabs run only over a non-empty cells_data; export_to_csv
\* returns None exactly when cells_data is empty; the empty case is shown as
\* a message, never as an exception of max()/min() or a NaN.
C11_NoStatisticsOverZeroCells ==
    NoEmptyStatistics(cells_data, insights_tab(cells_data),
                      export_tab(cells_data, num_cells),
                      export_to_csv(cells_data, num_cells),
                      export_button(cells_data, num_cells))

\* a completed run after a shrink: the statistics are computed over the four
\* remaining cells
C11_Witness ==
    /\ pc = "idle"
    /\ num_cells < InitNumCells
    /\ insights_tab(cells_data).shown = "insights"
    /\ insights_tab(cells_data).over = num_cells
    /\ export_tab(cells_data, num_cells).shown = "preview"
    /\ ~export_to_csv(cells_data, num_cells).none

\* the row of slot k carries the record of slot k
RowOf(row, k, rec) ==
    /\ row.Cell_Slot = k
    /\ row.Cell_Type = rec.cell_type
    /\ row.Temperature_C = rec.temp
    /\ row.Voltage_V = rec.voltage
    /\ row.Current_A = rec.current
    /\ row.Capacitance_mAh = rec.capacitance
    /\ row.Max_Voltage_V = rec.max_voltage
    /\ row.Min_Voltage_V = rec.min_voltage

NoReorderNoOmission(cd, rows) ==
    /\ \A j \in 1..(Len(rows) - 1) : rows[j].Cell_Slot < rows[j + 1].Cell_Slot
    /\ Len(rows) = Len(cd)
    /\ \A p \in 1..Len(cd) :
          /\ Cardinality({j \in 1..Len(rows) : rows[j].Cell_Slot = cd[p].key}) = 1
          /\ \E j \in 1..Len(rows) : RowOf(rows[j], cd[p].key, cd[p].val)

\* C12: the rows of export_to_csv have strictly ascending Cell_Slot, there is
\* exactly one row for every stored slot and it carries that slot's record;
\* at the end of a complete render pass there are exactly num_cells rows with
\* Cell_Slot = 1..num_cells.
C12_ExportRowsInOrder ==
    /\ NoReorderNoOmission(cells_data, ExportRows)
    /\ pc = "idle" =>
          /\ Len(ExportRows) = num_cells
          /\ \A j \in 1..num_cells : ExportRows[j].Cell_Slot = j

\* after a randomize and a completed render the rows of an LFP and of an NMC
\* cell stand in slot order
C12_Witness ==
    /\ pc = "idle"
    /\ last = "render"
    /\ Len(ExportRows) = num_cells
    /\ \E j \in 1..(num_cells - 1) :
          /\ ExportRows[j].Cell_Slot = j
          /\ ExportRows[j + 1].Cell_Slot = j + 1
          /\ ExportRows[j].Voltage_V # ExportRows[j + 1].Voltage_V

\* the field domains of the data model: temperature [0, 100] C, current
\* [0, 20] A, capacitance [0, 10000] mAh, voltage [0, 5] V
InFieldDomains(rec) ==
    /\ 0 <= rec.temp /\ rec.temp <= 1000
    /\ 0 <= rec.current /\ rec.current <= 2000
    /\ 0 <= rec.capacitance /\ rec.capacitance <= 10000
    /\ 0 <= rec.voltage /\ rec.voltage <= 500

\* C13: every stored record respects the field domains, whichever operation
\* (type defaults, preset, randomize, a field edit stored by the render
\* pass) wrote it.
C13_FieldDomains ==
    \A p \in 1..Len(cells_data) : InFieldDomains(cells_data[p].val)

\* the user has typed the upper end of the temperature domain into slot 1
\* next to cells that the randomize handler wrote with its highest current
C13_Witness ==
    /\ last = "edit"
    /\ pc = "idle"
    /\ Rec(1).temp = 1000
    /\ \E k \in StoredSlots : Rec(k).current = 800

\* a step of one of the three handlers that end in st.rerun()
RerunHandlerStep == steps' = steps + 1 /\ last' \in {"count", "preset", "randomize"}

\* C14: a cell-count change, a preset click and a randomize click each issue
\* one st.rerun(); the pass started by the rerun issues none and is the
\* render pass that stores all slots 1..num_cells, which ends the chain.
C14_OneRerunThenRender ==
    [][/\ RerunHandlerStep => pc' = "rerun"
       /\ pc = "rerun" =>
             /\ steps' = steps
             /\ pc' = "idle"
             /\ last' = "render"
             /\ DictKeys(cells_data') = 1..num_cells']_vars

\* the user has changed the type selector of a slot and the script has run
TypeChangeStep(slot) ==
    /\ steps' = steps + 1
    /\ last' = "edit"
    /\ type_sel'[slot] # type_sel[slot]

\* the record of the slot after the step: the new type and its band, the
\* four measurements as they were stored before
TypeChangeKeepsFields(slot) ==
    /\ DictHas(cells_data', slot)
    /\ DictGet(cells_data', slot).cell_type = type_sel'[slot]
    /\ <<DictGet(cells_data', slot).min_voltage, DictGet(cells_data', slot).max_voltage>>
          = BandOf(type_sel'[slot])
    /\ DictGet(cells_data', slot).temp = DictGet(cells_data, slot).temp
    /\ DictGet(cells_data', slot).current = DictGet(cells_data, slot).current
    /\ DictGet(cells_data', slot).voltage = DictGet(cells_data, slot).voltage
    /\ DictGet(cells_data', slot).capacitance = DictGet(cells_data, slot).capacitance

\* C15: when the user changes only the type selector of a slot that has a
\* stored record, the next render pass stores the new cell_type with the
\* band of the new type, and the temp, current, voltage and capacitance it
\* offers (and stores) are the slot's previously stored ones.
C15_TypeChangeKeepsFields ==
    [][\A slot \in 1..num_cells :
          (TypeChangeStep(slot) /\ DictHas(cells_data, slot))
              => TypeChangeKeepsFields(slot)]_vars

\* the script run that st.rerun() of the named handler has started
RerenderAfter(handler) == last = handler /\ pc = "rerun" /\ pc' # pc

\* C16: after the "Randomize All Values" handler and the re-render that
\* follows it, every slot satisfies min_voltage <= voltage <= max_voltage.
C16_RandomizeStaysInRange ==
    [][RerenderAfter("randomize") =>
          \A p \in 1..Len(cells_data') : ~OutOfRange(cells_data'[p].val)]_vars

\* the record of a slot holds the constants of the presets table for (mode, cell_type)
HoldsPreset(rec, mode, cell_type) ==
    /\ rec.voltage = presets[mode][cell_type].voltage
    /\ rec.temp = presets[mode][cell_type].temp
    /\ rec.current = presets[mode][cell_type].current
    /\ rec.capacitance = presets[mode][cell_type].capacitance

\* C17: apply_preset_to_all_cells(mode) with a valid mode leaves num_cells
\* and the set of stored slots unchanged; the re-render that follows
\* completes for every slot without error, and then every slot 1..num_cells
\* holds the preset constants of (mode, the slot's selector type), with the
\* voltage inside the slot's band.
C17_PresetThenRender ==
    [][/\ (last' = "preset" /\ steps' = steps + 1) =>
              /\ num_cells' = num_cells
              /\ DictKeys(cells_data') = DictKeys(cells_data)
       /\ RerenderAfter("preset") =>
              /\ pc' = "idle"
              /\ err' = "none"
              /\ \E mode \in Modes : \A k \in 1..num_cells' :
                    /\ DictHas(cells_data', k)
                    /\ HoldsPreset(DictGet(cells_data', k), mode, type_sel'[k])
                    /\ ~OutOfRange(DictGet(cells_data', k))]_vars

\* the cells the Visualizations tab charts and the Insights tab walks
ShownCells(cd, chart) ==
    {chart[p].Cell_Slot : p \in 1..Len(chart)} \cup {cd[p].key : p \in 1..Len(cd)}

\* C18: the stored slots are always a subset of 1..num_cells, and exactly
\* 1..num_cells at the end of every complete script run, so the
\* Visualizations and Insights tabs never show a cell that the count
\* selector has removed.
C18_StoredSlotsWithinCount ==
    /\ StoredSlots \subseteq 1..num_cells
    /\ ShownCells(cells_data, chart_data(cells_data)) \subseteq 1..num_cells
    /\ pc = "idle" => StoredSlots = 1..num_cells

\* the count has been reduced and the run after it has completed: the four
\* remaining cells are charted
C18_Witness ==
    /\ pc = "idle"
    /\ last = "render"
    /\ steps >= 1
    /\ num_cells < InitNumCells
    /\ StoredSlots = 1..num_cells
    /\ Len(chart_data(cells_data)) = num_cells

SummaryTable == summary_data(cells_data, out_of_range_cells(cells_data))

\* the export row of slot k and the summary row labelled "Cell k" exist and
\* agree on the status
StatusAgrees(rows, summary, k) ==
    /\ HasRow(rows, k)
    /\ \E j \in 1..Len(summary) : summary[j].Cell = k
    /\ \A i \in 1..Len(rows) : \A j \in 1..Len(summary) :
          (rows[i].Cell_Slot = k /\ summary[j].Cell = k) =>
              ((rows[i].Voltage_Status = "Out_of_Range") <=> (summary[j].Status = "Out of Range"))

StatusesAgree(rows, summary, n) == \A k \in 1..n : StatusAgrees(rows, summary, k)

\* C19: at the end of a render pass the export row with Cell_Slot = k has
\* Voltage_Status 'Out_of_Range' exactly when the row "Cell k" of the
\* Insights summary table has Status 'Out of Range', for every slot k.
C19_StatusesAgree ==
    pc = "idle" => StatusesAgree(ExportRows, SummaryTable, num_cells)

\* a completed render whose two tables report one cell out of range and
\* the cell after it normal
C19_Witness ==
    /\ pc = "idle"
    /\ \E k \in 1..(num_cells - 1) :
          /\ ExportStatus(k) = "Out_of_Range"
          /\ SummaryTable[k].Status = "Out of Range"
          /\ ExportStatus(k + 1) = "Normal"
          /\ SummaryTable[k + 1].Status = "Normal"

\* the last two direct calls were get_preset_values for the same valid pair
SamePresetCallTwice ==
    /\ fn_call.fn = "get_preset_values" /\ fn_prev.fn = "get_preset_values"
    /\ fn_call.mode \in Modes /\ fn_call.cell_type \in CellTypes
    /\ fn_prev.mode = fn_call.mode /\ fn_prev.cell_type = fn_call.cell_type

SixFields(value) ==
    <<value.voltage, value.temp, value.current, value.capacitance,
      value.max_voltage, value.min_voltage>>

\* C20: for every valid (mode, cell_type), two calls of get_preset_values
\* under any two states of the random source return records identical in
\* all six fields.
C20_PresetValuesDeterministic ==
    SamePresetCallTwice =>
        /\ fn_call.raised = "none" /\ fn_prev.raised = "none"
        /\ SixFields(fn_call.value) = SixFields(fn_prev.value)

\* two calls for the same pair from states of the random source whose
\* default temperature, current and capacitance all differ
C20_Witness ==
    /\ SamePresetCallTwice
    /\ fn_call.rng # fn_prev.rng
    /\ get_default_values(fn_call.cell_type, fn_call.rng).temp
          # get_default_values(fn_prev.cell_type, fn_prev.rng).temp
    /\ get_default_values(fn_call.cell_type, fn_call.rng).current
          # get_default_values(fn_prev.cell_type, fn_prev.rng).current
    /\ get_default_values(fn_call.cell_type, fn_call.rng).capacitance
          # get_default_values(fn_prev.cell_type, fn_prev.rng).capacitance
    /\ fn_call.value = fn_prev.value

====
